---- MODULE Spec2Model ----
(***************************************************************************)
(* A model of src/stylesheets.ts: the rule collector                       *)
(* (getStyleRulesFromSheet), the specificity sorter                        *)
(* (getDocumentStyleRules), the selector matcher and pseudo-element        *)
(* splitter (getElementStyles, getPseudoElementStyles) and the cascade     *)
(* resolver (getAppliedPropertiesForStyles).                               *)
(*                                                                         *)
(* Strings of the program are TLA+ strings; a CSSStyleDeclaration is the   *)
(* sequence of its declarations [name, value, important] in index order;   *)
(* a JavaScript object used as a map is a TLA+ function on its key set.    *)
(***************************************************************************)
EXTENDS Integers, Sequences, FiniteSets, TLC

VARIABLES
    lastIndex,  \* pseudoElementRegex.lastIndex, the only module-level state
    pc,         \* position of the running call
    args,       \* the arguments of the running call
    acc,        \* the accumulator of the reduce in getPseudoElementStyles
    result,     \* what the call returned
    prev        \* the result of the preceding call when it had the same arguments

vars == <<lastIndex, pc, args, acc, result, prev>>

(***************************************************************************)
(* Bounds of the inputs.                                                   *)
(***************************************************************************)
MaxStyles == 3      \* declaration blocks handed to the cascade resolver
MaxDecls == 2       \* declarations in one block
MaxRules == 2       \* style rules handed to getElementStyles and getPseudoElementStyles
MaxNodes == 3       \* rules of all kinds in one rule tree or document
MaxSheets == 2      \* style sheets of a document

(***************************************************************************)
(* Values shared by the operations.                                        *)
(***************************************************************************)
None == [none |-> TRUE]                       \* no call has returned yet
Thrown == [threw |-> TRUE]                    \* the call ended with an exception
Null == [isNull |-> TRUE, map |-> <<>>]       \* the value null
Object(m) == [isNull |-> FALSE, map |-> m]    \* the object with the entries of m

NoArgs == [none |-> TRUE]                     \* no call has been made yet
NoScan == [seenPseudos |-> <<>>, baseSelector |-> "", lastIndex |-> 0]
NoAcc == [i |-> 0, rulesByPseudoElement |-> <<>>, scan |-> NoScan]

RECURSIVE SeqsUpTo(_, _)
SeqsUpTo(S, n) ==
    IF n = 0 THEN {<<>>}
    ELSE LET shorter == SeqsUpTo(S, n - 1)
         IN  shorter \cup {Append(s, x) : s \in {t \in shorter : Len(t) = n - 1}, x \in S}

Range(s) == {s[k] : k \in DOMAIN s}

(***************************************************************************)
(* String helpers: s.slice(from, to) with 0-based indices, s.endsWith.     *)
(***************************************************************************)
Slice(s, from, to) == SubSeq(s, from + 1, to)

EndsWith(s, suffix) ==
    /\ Len(s) >= Len(suffix)
    /\ SubSeq(s, Len(s) - Len(suffix) + 1, Len(s)) = suffix

(***************************************************************************)
(* Declaration blocks (CSSStyleDeclaration).                               *)
(***************************************************************************)
PropertyNames == {"color", "width"}
ValuesOf(name) == IF name = "color" THEN {"red", "blue"} ELSE {"1px"}

Declarations ==
    UNION {{[name |-> n, value |-> v, important |-> b] : v \in ValuesOf(n), b \in BOOLEAN}
           : n \in PropertyNames}

\* Property names are unique within one block.
StyleDeclarations ==
    {s \in SeqsUpTo(Declarations, MaxDecls) :
        \A j, k \in DOMAIN s : j # k => s[j].name # s[k].name}

\* style.getPropertyPriority(name)
getPropertyPriority(decl) == IF decl.important THEN "important" ELSE ""

(***************************************************************************)
(* getAppliedPropertiesForStyles.  The loop state is [properties,          *)
(* important]: the object being built (or null) and the Set of names       *)
(* already declared important.                                             *)
(***************************************************************************)
ImportantMarker == " !important"

\* ApplyDeclaration with the test `!important.has(name)` left out of line 135.
ApplyDeclarationLastImportant(st, decl) ==
    LET name == decl.name
        isImportant == getPropertyPriority(decl) = "important"
        value == decl.value \o (IF isImportant THEN ImportantMarker ELSE "")
        properties ==
            IF ~st.properties.isNull
            THEN IF name \notin DOMAIN st.properties.map \/ isImportant
                 THEN Object((name :> value) @@ st.properties.map)
                 ELSE st.properties
            ELSE Object(name :> value)
    IN  [properties |-> properties,
         important |-> IF isImportant THEN st.important \cup {name} ELSE st.important]

\* Lines 128-145: one iteration of the inner loop, for the declaration decl.
ApplyDeclaration(st, decl) ==
    LET name == decl.name
        isImportant == getPropertyPriority(decl) = "important"
        value == decl.value \o (IF isImportant THEN ImportantMarker ELSE "")
        properties ==
            IF ~st.properties.isNull
            THEN IF \/ name \notin DOMAIN st.properties.map
                    \/ (isImportant /\ name \notin st.important)
                 THEN Object((name :> value) @@ st.properties.map)
                 ELSE st.properties
            ELSE Object(name :> value)
    IN  [properties |-> properties,
         important |-> IF isImportant THEN st.important \cup {name} ELSE st.important]

\* Lines 127-146: the inner loop over style[0..len-1], from index i (1-based).
RECURSIVE ApplyStyle(_, _, _)
ApplyStyle(st, style, i) ==
    IF i > Len(style) THEN st
    ELSE ApplyStyle(ApplyDeclaration(st, style[i]), style, i + 1)

\* Lines 126-147: the outer loop over styles, from index k (1-based).
RECURSIVE ApplyStyles(_, _, _)
ApplyStyles(st, styles, k) ==
    IF k > Len(styles) THEN st
    ELSE ApplyStyles(ApplyStyle(st, styles[k], 1), styles, k + 1)

getAppliedPropertiesForStyles(styles) ==
    ApplyStyles([properties |-> Null, important |-> {}], styles, 1).properties

(***************************************************************************)
(* Elements and style rules.  The program reads two things of an element:  *)
(* its inline declaration block, el.style, and the answer of the host's    *)
(* method el.matches to a selector text, which is true, false or a         *)
(* SyntaxError.  Selector matching is the host's and no part of the        *)
(* program, so an element carries the host's answers with it: the selector *)
(* texts the host says it matches and those the host refuses; to every     *)
(* other text the host's answer is false.                                  *)
(***************************************************************************)
CharAt(s, p) == IF p < Len(s) THEN SubSeq(s, p + 1, p + 1) ELSE ""

UpperCase == "ABCDEFGHIJKLMNOPQRSTUVWXYZ"
LowerCase == "abcdefghijklmnopqrstuvwxyz"

ToLowerTable ==
    [c \in {SubSeq(UpperCase, k, k) : k \in 1..Len(UpperCase)} |->
        LET k == CHOOSE j \in 1..Len(UpperCase) : SubSeq(UpperCase, j, j) = c
        IN  SubSeq(LowerCase, k, k)]

ToLowerChar(c) == IF c \in DOMAIN ToLowerTable THEN ToLowerTable[c] ELSE c

RECURSIVE ToLowerCase(_)
ToLowerCase(s) ==
    IF s = "" THEN "" ELSE ToLowerChar(CharAt(s, 0)) \o ToLowerCase(Slice(s, 1, Len(s)))

PseudoElementNames ==
    <<"before", "after", "first-letter", "first-line", "selection", "backdrop",
      "placeholder", "marker", "spelling-error", "grammar-error">>

\* el.matches(selector): it throws a SyntaxError, or returns value.
Matches(el, selector) ==
    IF selector \in el.invalid THEN [threw |-> TRUE, value |-> FALSE]
    ELSE [threw |-> FALSE, value |-> selector \in el.matching]

InlineStyles ==
    { <<>>,
      <<[name |-> "color", value |-> "red", important |-> FALSE]>>,
      <<[name |-> "color", value |-> "red", important |-> TRUE]>>,
      <<[name |-> "width", value |-> "1px", important |-> FALSE],
        [name |-> "color", value |-> "red", important |-> FALSE]>> }

\* The elements with an inline block of styles, told apart by what the host answers
\* to the selector texts of asked: every answer to every text.
ElementsAsked(styles, asked) ==
    UNION {{[style |-> s, matching |-> m, invalid |-> i] : s \in styles, i \in SUBSET (asked \ m)}
           : m \in SUBSET asked}

RuleStyles ==
    { <<>>,
      <<[name |-> "color", value |-> "blue", important |-> FALSE]>>,
      <<[name |-> "color", value |-> "blue", important |-> TRUE]>>,
      <<[name |-> "color", value |-> "green", important |-> TRUE]>> }

\* Selector texts without a pseudo-element, with one, with one in capitals, with one
\* name in two spellings, with nothing but one, with one name twice and with two names.
Selectors ==
    { "div", "*", "div::before", "span:BEFORE", "span:BEFORE, span::before", "::after",
      "div::before, span::before", "div::before, div::after" }

StyleRules == {[selectorText |-> t, style |-> s] : t \in Selectors, s \in RuleStyles}

(***************************************************************************)
(* getElementStyles.                                                       *)
(***************************************************************************)
\* Lines 25-27: rules.filter(rule => el.matches(rule.selectorText)).map(style)
RECURSIVE MatchingStyles(_, _, _)
MatchingStyles(el, rules, k) ==
    IF k > Len(rules) THEN <<>>
    ELSE (IF Matches(el, rules[k].selectorText).value THEN <<rules[k].style>> ELSE <<>>)
         \o MatchingStyles(el, rules, k + 1)

\* ElementStyleBlocks with the inline block put last instead of first.
ElementStyleBlocksInlineLast(el, rules) == MatchingStyles(el, rules, 1) \o <<el.style>>

\* The blocks handed to the resolver: [el.style].concat(...)
ElementStyleBlocks(el, rules) == <<el.style>> \o MatchingStyles(el, rules, 1)

getElementStyles(el, rules) ==
    IF \E k \in DOMAIN rules : Matches(el, rules[k].selectorText).threw
    THEN Thrown
    ELSE getAppliedPropertiesForStyles(ElementStyleBlocks(el, rules))

(***************************************************************************)
(* pseudoElementRegex (line 2): a global, case-insensitive pattern, so     *)
(* exec starts at lastIndex and leaves lastIndex behind the match, or at 0 *)
(* when nothing matched.                                                   *)
(***************************************************************************)
NoMatch == [found |-> FALSE, index |-> 0, all |-> "", group |-> ""]

\* The alternation (before|after|...) tried at position p of the text, which the i
\* flag compares in lower case: the names that match there.
NamesAt(lower, p) ==
    {k \in DOMAIN PseudoElementNames :
        /\ p + Len(PseudoElementNames[k]) <= Len(lower)
        /\ Slice(lower, p, p + Len(PseudoElementNames[k])) = PseudoElementNames[k]}

\* The pattern ::?(name) tried at position p: the greedy second colon first.
MatchAt(text, lower, p) ==
    LET colons == IF CharAt(text, p + 1) = ":" /\ NamesAt(lower, p + 2) # {} THEN 2 ELSE 1
        names == NamesAt(lower, p + colons)
        len == Len(PseudoElementNames[CHOOSE k \in names : \A j \in names : k <= j])
    IN  IF CharAt(text, p) = ":" /\ names # {}
        THEN [found |-> TRUE, index |-> p,
              all |-> Slice(text, p, p + colons + len),
              group |-> Slice(text, p + colons, p + colons + len)]
        ELSE NoMatch

\* The leftmost match that starts at position p or later.
RECURSIVE SearchFrom(_, _, _)
SearchFrom(text, lower, p) ==
    IF p >= Len(text) THEN NoMatch
    ELSE IF CharAt(text, p) = ":" /\ MatchAt(text, lower, p).found THEN MatchAt(text, lower, p)
    ELSE SearchFrom(text, lower, p + 1)

\* pseudoElementRegex.exec(text) with the cursor at last: the match and the new cursor.
Exec(text, last) ==
    LET m == IF last > Len(text) THEN NoMatch ELSE SearchFrom(text, ToLowerCase(text), last)
    IN  IF m.found
        THEN [match |-> m, lastIndex |-> m.index + Len(m.all)]
        ELSE [match |-> NoMatch, lastIndex |-> 0]

(***************************************************************************)
(* getPseudoElementStyles.  seenPseudos is null or a non-empty array: the  *)
(* empty sequence stands for null.                                         *)
(***************************************************************************)
RECURSIVE ScanSelector(_, _)

\* ScanSelector with `if` in place of `while` on line 44: the pattern is run once.
ScanSelectorOnce(selectorText, st) ==
    LET e == Exec(selectorText, st.lastIndex)
        match == e.match
        name == "::" \o match.group
    IN  IF ~match.found
        THEN [st EXCEPT !.lastIndex = e.lastIndex]
        ELSE [seenPseudos |-> <<name>>,
              baseSelector |->
                 Slice(selectorText, 0, match.index)
                 \o Slice(selectorText, match.index + Len(match.all), Len(selectorText)),
              lastIndex |-> e.lastIndex]

\* Lines 44-58: the while loop, entered with the cursor at st.lastIndex.
ScanSelector(selectorText, st) ==
    LET e == Exec(selectorText, st.lastIndex)
        match == e.match
        name == "::" \o match.group
    IN  IF ~match.found
        THEN [st EXCEPT !.lastIndex = e.lastIndex]
        ELSE ScanSelector(selectorText,
                [seenPseudos |->
                    IF st.seenPseudos # <<>>
                    THEN IF name \notin Range(st.seenPseudos)
                         THEN Append(st.seenPseudos, name)
                         ELSE st.seenPseudos
                    ELSE <<name>>,
                 baseSelector |->
                    Slice(selectorText, 0, match.index)
                    \o Slice(selectorText, match.index + Len(match.all), Len(selectorText)),
                 lastIndex |-> e.lastIndex])

\* Lines 61-65: the style is pushed onto the array of every seen name.
RECURSIVE PushStyle(_, _, _, _)
PushStyle(rulesByPseudoElement, seenPseudos, k, style) ==
    IF k > Len(seenPseudos) THEN rulesByPseudoElement
    ELSE LET name == seenPseudos[k]
             list == IF name \in DOMAIN rulesByPseudoElement
                     THEN rulesByPseudoElement[name] ELSE <<>>
         IN  PushStyle((name :> Append(list, style)) @@ rulesByPseudoElement,
                       seenPseudos, k + 1, style)

\* Lines 40-42: the locals of the callback before the while loop.
ScanStart(selectorText, last) ==
    [seenPseudos |-> <<>>, baseSelector |-> selectorText, lastIndex |-> last]

\* Line 60: seenPseudos && el.matches(baseSelector || "*"), which may throw.
MatchesBase(el, scan) ==
    IF scan.seenPseudos = <<>>
    THEN [threw |-> FALSE, value |-> FALSE]
    ELSE Matches(el, IF scan.baseSelector = "" THEN "*" ELSE scan.baseSelector)

\* Lines 71-85: null when no name was found, else the resolved styles per name.
ResolvePseudoElements(stylesByPseudoElement) ==
    LET foundPseudoElements == DOMAIN stylesByPseudoElement
    IN  IF foundPseudoElements = {}
        THEN Null
        ELSE Object([name \in foundPseudoElements |->
                        getAppliedPropertiesForStyles(stylesByPseudoElement[name])])

(***************************************************************************)
(* Rule trees (CSSRule objects).  A rule is a record with its type and,    *)
(* by kind, selectorText and style, media.mediaText, conditionText and     *)
(* cssRules.  id stands for the identity of the object: rules are numbered *)
(* in the order in which the document declares them.                       *)
(***************************************************************************)
STYLE_RULE == 1
MEDIA_RULE == 4
SUPPORTS_RULE == 12
LAYER_BLOCK_RULE == 0   \* a grouping rule of a kind the collector does not know

\* The rules a tree is built from: kinds is what the leaves and groups may be.
Leaves(kinds, id) ==
    {[type |-> STYLE_RULE, id |-> id, selectorText |-> t, style |-> <<>>] : t \in kinds.selectors}

Group(kinds, id, cssRules) ==
    {[type |-> MEDIA_RULE, id |-> id, media |-> [mediaText |-> t], cssRules |-> cssRules]
        : t \in kinds.mediaTexts}
    \cup {[type |-> SUPPORTS_RULE, id |-> id, conditionText |-> t, cssRules |-> cssRules]
        : t \in kinds.conditionTexts}
    \cup {[type |-> ty, id |-> id, cssRules |-> cssRules] : ty \in kinds.others}

\* RuleLists(kinds, n, id): the rule lists of exactly n rules in all, numbered from id;
\* RuleTrees(kinds, k, id): the single rules that hold k rules, themselves included.
RECURSIVE RuleLists(_, _, _), RuleTrees(_, _, _)
RuleLists(kinds, n, id) ==
    IF n = 0 THEN {<<>>}
    ELSE UNION {{<<t>> \o rest : t \in RuleTrees(kinds, k, id),
                                 rest \in RuleLists(kinds, n - k, id + k)} : k \in 1..n}

RuleTrees(kinds, k, id) ==
    (IF k = 1 THEN Leaves(kinds, id) ELSE {})
    \cup UNION {Group(kinds, id, inner) : inner \in RuleLists(kinds, k - 1, id + 1)}

(***************************************************************************)
(* The window: matchMedia may be missing (line 103 tests it); CSS.supports *)
(* is called untested (line 109), so a window without CSS makes the call   *)
(* throw a TypeError.                                                      *)
(***************************************************************************)
Windows(mediaTexts, conditionTexts) ==
    {[matchMedia |-> mm, matching |-> m, CSS |-> css, supported |-> c] :
        mm \in BOOLEAN, m \in SUBSET mediaTexts, css \in BOOLEAN, c \in SUBSET conditionTexts}

\* Windows that differ only in what a missing evaluator would have said are one window.
NormalWindows(mediaTexts, conditionTexts) ==
    {w \in Windows(mediaTexts, conditionTexts) :
        /\ ~w.matchMedia => w.matching = {}
        /\ ~w.CSS => w.supported = {}}

isStyleRule(rule) == rule.type = STYLE_RULE
isMediaRule(rule) == rule.type = MEDIA_RULE
isSupportsRule(rule) == rule.type = SUPPORTS_RULE

(***************************************************************************)
(* getStyleRulesFromSheet.  The value is [threw, styleRules].              *)
(***************************************************************************)
Returned(styleRules) == [threw |-> FALSE, styleRules |-> styleRules]
Raised == [threw |-> TRUE, styleRules |-> <<>>]

\* styleRules.push(...more) after what was collected so far.
Push(sofar, more) ==
    IF sofar.threw \/ more.threw THEN Raised
    ELSE Returned(sofar.styleRules \o more.styleRules)

\* CollectFrom: lines 98-113, the loop from index i (1-based) down to the first rule;
\* CollectRule: lines 99-112, what the rule curRules[i] adds to styleRules.
RECURSIVE CollectFrom(_, _, _), CollectRule(_, _)
CollectFrom(curRules, window, i) ==
    IF i = 0 THEN Returned(<<>>)
    ELSE Push(CollectRule(curRules[i], window), CollectFrom(curRules, window, i - 1))

\* CollectRule with the test of line 104 left out: every media group is entered.
CollectRuleEveryMedia(rule, window) ==
    IF isStyleRule(rule) THEN Returned(<<rule>>)
    ELSE IF isMediaRule(rule) /\ window.matchMedia
         THEN CollectFrom(rule.cssRules, window, Len(rule.cssRules))
    ELSE IF isSupportsRule(rule)
         THEN IF ~window.CSS THEN Raised
              ELSE IF rule.conditionText \in window.supported
                   THEN CollectFrom(rule.cssRules, window, Len(rule.cssRules))
                   ELSE Returned(<<>>)
    ELSE Returned(<<>>)

CollectRule(rule, window) ==
    IF isStyleRule(rule) THEN Returned(<<rule>>)
    ELSE IF isMediaRule(rule) /\ window.matchMedia
         THEN IF rule.media.mediaText \in window.matching
              THEN CollectFrom(rule.cssRules, window, Len(rule.cssRules))
              ELSE Returned(<<>>)
    ELSE IF isSupportsRule(rule)
         THEN IF ~window.CSS THEN Raised
              ELSE IF rule.conditionText \in window.supported
                   THEN CollectFrom(rule.cssRules, window, Len(rule.cssRules))
                   ELSE Returned(<<>>)
    ELSE Returned(<<>>)

getStyleRulesFromSheet(sheet, window) ==
    CollectFrom(sheet.cssRules, window, Len(sheet.cssRules))

(***************************************************************************)
(* getDocumentStyleRules.  compare belongs to the specificity package: it  *)
(* is modelled for compound selectors made of ids, classes and one type.   *)
(* Array.prototype.sort is the stable sort the language requires.          *)
(***************************************************************************)
RECURSIVE Count(_, _)
Count(s, c) ==
    IF s = "" THEN 0
    ELSE (IF CharAt(s, 0) = c THEN 1 ELSE 0) + Count(Slice(s, 1, Len(s)), c)

Specificity(selector) ==
    <<Count(selector, "#"), Count(selector, "."),
      IF CharAt(selector, 0) \in DOMAIN ToLowerTable
            \/ CharAt(selector, 0) \in Range(ToLowerTable) THEN 1 ELSE 0>>

\* compare(a, b) of the specificity package: -1, 0 or 1.
compare(a, b) ==
    LET x == Specificity(a)
        y == Specificity(b)
        d == CHOOSE k \in 1..4 : k = 4 \/ x[k] # y[k]
    IN  IF d = 4 THEN 0 ELSE IF x[d] < y[d] THEN -1 ELSE 1

\* BySpecificity with the selectors handed to compare the other way round.
BySpecificityAscending(a, b) == compare(a.selectorText, b.selectorText)

\* Line 14: the comparator handed to sort.
BySpecificity(a, b) == compare(b.selectorText, a.selectorText)

\* x put into the sorted list after every element that does not sort after it.
RECURSIVE Insert(_, _)
Insert(sorted, x) ==
    IF sorted = <<>> THEN <<x>>
    ELSE IF BySpecificity(sorted[1], x) <= 0 THEN <<sorted[1]>> \o Insert(Tail(sorted), x)
    ELSE <<x>> \o sorted

RECURSIVE Sort(_, _)
Sort(list, n) == IF n = 0 THEN <<>> ELSE Insert(Sort(list, n - 1), list[n])

\* Lines 9-13: the rules of every sheet, the sheets in document order.
RECURSIVE CollectSheets(_, _, _)
CollectSheets(styleSheets, window, k) ==
    IF k > Len(styleSheets) THEN Returned(<<>>)
    ELSE Push(getStyleRulesFromSheet(styleSheets[k], window),
              CollectSheets(styleSheets, window, k + 1))

getDocumentStyleRules(document) ==
    LET all == CollectSheets(document.styleSheets, document.defaultView, 1)
    IN  IF all.threw THEN Raised ELSE Returned(Sort(all.styleRules, Len(all.styleRules)))

(***************************************************************************)
(* The cascade resolver alone: every sequence of at most MaxStyles blocks  *)
(* is resolved once.                                                       *)
(***************************************************************************)

InitCascade ==
    /\ lastIndex = 0
    /\ pc = "call"
    /\ args \in {[styles |-> s] : s \in SeqsUpTo(StyleDeclarations, MaxStyles)}
    /\ acc = NoAcc
    /\ result = None
    /\ prev = None

Resolve ==
    /\ pc = "call"
    /\ result' = getAppliedPropertiesForStyles(args.styles)
    /\ pc' = "done"
    /\ UNCHANGED <<lastIndex, args, acc, prev>>

NextCascade == Resolve

SpecCascade == InitCascade /\ [][NextCascade]_vars

(***************************************************************************)
(* getElementStyles alone: every element and every sequence of at most     *)
(* MaxRules rules.                                                         *)
(***************************************************************************)
\* To getElementStyles a selector text is what it hands to el.matches.
ElementRules == {r \in StyleRules : r.selectorText \in {"div", "*", "div::before"}}

\* The selector texts el.matches is asked about on line 26.
AskedSelectors(rules) == {rules[k].selectorText : k \in DOMAIN rules}

InitElement ==
    /\ lastIndex = 0
    /\ pc = "call"
    /\ \E r \in SeqsUpTo(ElementRules, MaxRules) :
          \E e \in ElementsAsked(InlineStyles, AskedSelectors(r)) :
              args = [el |-> e, rules |-> r]
    /\ acc = NoAcc
    /\ result = None
    /\ prev = None

MatchElement ==
    /\ pc = "call"
    /\ result' = getElementStyles(args.el, args.rules)
    /\ pc' = "done"
    /\ UNCHANGED <<lastIndex, args, acc, prev>>

NextElement == MatchElement

SpecElement == InitElement /\ [][NextElement]_vars

(***************************************************************************)
(* getPseudoElementStyles, called again and again on the one shared        *)
(* pattern.  The reduce runs one callback in two steps, the scan and the   *)
(* match; a SyntaxError of el.matches ends the call where it is raised.    *)
(* The inline style of the element plays no part, so the elements are      *)
(* those without one.                                                      *)
(***************************************************************************)
\* The empty block and one other block tell the blocks of a group apart; the empty
\* block comes with the selectors of one name.
PseudoRules ==
    {r \in StyleRules :
        /\ r.selectorText # "*"
        /\ \/ r.style = <<[name |-> "color", value |-> "blue", important |-> TRUE]>>
           \/ r.style = <<>> /\ r.selectorText \in {"div::before", "::after"}}

\* The selector texts el.matches is asked about on line 60: the base selector of every
\* rule whose selector names a pseudo-element, `*` for the empty one.
AskedBases(rules) ==
    {IF scan.baseSelector = "" THEN "*" ELSE scan.baseSelector :
        scan \in {sc \in {ScanSelector(rules[k].selectorText,
                                       ScanStart(rules[k].selectorText, 0)) : k \in DOMAIN rules} :
                    sc.seenPseudos # <<>>}}

InitPseudo ==
    /\ lastIndex = 0
    /\ pc = "idle"
    /\ args = NoArgs
    /\ acc = NoAcc
    /\ result = None
    /\ prev = None

\* What the caller passes: any rules on the first call, afterwards the same rules
\* again or a list of one rule; and an element with any answers of the host.
NextRules ==
    IF args = NoArgs THEN SeqsUpTo(PseudoRules, MaxRules)
    ELSE {args.rules} \cup {<<r>> : r \in PseudoRules}

\* Line 38: the call, with the reduce about to visit rules[0].
CallPseudo ==
    /\ pc = "idle"
    /\ \E r \in NextRules :
          \E e \in ElementsAsked({<<>>}, AskedBases(r)) :
              /\ args' = [el |-> e, rules |-> r]
              /\ prev' = IF args = [el |-> e, rules |-> r] THEN result ELSE None
    /\ acc' = [i |-> 1, rulesByPseudoElement |-> <<>>, scan |-> NoScan]
    /\ result' = None
    /\ pc' = "scan"
    /\ UNCHANGED lastIndex

\* Lines 39-58: the callback for the next rule, up to the end of its while loop.
ScanStep ==
    /\ pc = "scan"
    /\ acc.i <= Len(args.rules)
    /\ \E scan \in {ScanSelector(args.rules[acc.i].selectorText,
                                 ScanStart(args.rules[acc.i].selectorText, lastIndex))} :
          /\ acc' = [acc EXCEPT !.scan = scan]
          /\ lastIndex' = scan.lastIndex
    /\ pc' = "match"
    /\ UNCHANGED <<args, result, prev>>

\* Lines 60-68: the rest of the callback; an exception of el.matches ends the call.
MatchStep ==
    /\ pc = "match"
    /\ \E m \in {MatchesBase(args.el, acc.scan)} :
          IF m.threw
          THEN /\ pc' = "idle"
               /\ result' = Thrown
               /\ acc' = acc
          ELSE /\ pc' = "scan"
               /\ result' = result
               /\ acc' = [acc EXCEPT
                            !.i = acc.i + 1,
                            !.rulesByPseudoElement =
                                IF m.value
                                THEN PushStyle(acc.rulesByPseudoElement, acc.scan.seenPseudos,
                                               1, args.rules[acc.i].style)
                                ELSE acc.rulesByPseudoElement]
    /\ UNCHANGED <<lastIndex, args, prev>>

\* Lines 71-85: the reduce is over and the call returns.
ReturnPseudo ==
    /\ pc = "scan"
    /\ acc.i > Len(args.rules)
    /\ result' = ResolvePseudoElements(acc.rulesByPseudoElement)
    /\ pc' = "idle"
    /\ UNCHANGED <<lastIndex, args, acc, prev>>

NextPseudo == CallPseudo \/ ScanStep \/ MatchStep \/ ReturnPseudo

SpecPseudo == InitPseudo /\ [][NextPseudo]_vars

(***************************************************************************)
(* getStyleRulesFromSheet alone: every rule tree of at most MaxNodes rules *)
(* and every window.                                                       *)
(***************************************************************************)
SheetKinds ==
    [selectors |-> {"div"}, mediaTexts |-> {"screen", "print"},
     conditionTexts |-> {"(display: grid)"}, others |-> {LAYER_BLOCK_RULE}]

SheetWindows == NormalWindows(SheetKinds.mediaTexts, SheetKinds.conditionTexts)

InitSheet ==
    /\ lastIndex = 0
    /\ pc = "call"
    /\ args \in {[sheet |-> [cssRules |-> r], window |-> w] :
                    r \in UNION {RuleLists(SheetKinds, n, 1) : n \in 0..MaxNodes},
                    w \in SheetWindows}
    /\ acc = NoAcc
    /\ result = None
    /\ prev = None

CollectSheet ==
    /\ pc = "call"
    /\ result' = getStyleRulesFromSheet(args.sheet, args.window)
    /\ pc' = "done"
    /\ UNCHANGED <<lastIndex, args, acc, prev>>

NextSheet == CollectSheet

SpecSheet == InitSheet /\ [][NextSheet]_vars

(***************************************************************************)
(* getDocumentStyleRules alone: every document of at most MaxSheets style  *)
(* sheets that hold at most MaxNodes rules in all.                         *)
(***************************************************************************)
DocumentKinds ==
    [selectors |-> {"div", ".a"}, mediaTexts |-> {"screen"},
     conditionTexts |-> {}, others |-> {}]

DocumentWindows ==
    {w \in NormalWindows(DocumentKinds.mediaTexts, DocumentKinds.conditionTexts) : w.CSS}

\* The lists of exactly m sheets that hold n rules in all, numbered from id.
RECURSIVE SheetLists(_, _, _)
SheetLists(m, n, id) ==
    IF m = 0 THEN (IF n = 0 THEN {<<>>} ELSE {})
    ELSE UNION {{<<[cssRules |-> r]>> \o rest : r \in RuleLists(DocumentKinds, k, id),
                                               rest \in SheetLists(m - 1, n - k, id + k)}
                : k \in 0..n}

Documents ==
    {[styleSheets |-> s, defaultView |-> w] :
        s \in UNION {SheetLists(m, n, 1) : m \in 0..MaxSheets, n \in 0..MaxNodes},
        w \in DocumentWindows}

InitDocument ==
    /\ lastIndex = 0
    /\ pc = "call"
    /\ args \in {[document |-> d] : d \in Documents}
    /\ acc = NoAcc
    /\ result = None
    /\ prev = None

CollectDocument ==
    /\ pc = "call"
    /\ result' = getDocumentStyleRules(args.document)
    /\ pc' = "done"
    /\ UNCHANGED <<lastIndex, args, acc, prev>>

NextDocument == CollectDocument

SpecDocument == InitDocument /\ [][NextDocument]_vars

(***************************************************************************)
(* Properties of the cascade resolver (SpecCascade).                       *)
(***************************************************************************)
Min(S) == CHOOSE x \in S : \A y \in S : x <= y
Max(S) == CHOOSE x \in S : \A y \in S : x >= y

Declares(style, name) == \E k \in DOMAIN style : style[k].name = name
DeclaresImportant(style, name) ==
    \E k \in DOMAIN style : style[k].name = name /\ style[k].important
DeclarationOf(style, name) == style[CHOOSE k \in DOMAIN style : style[k].name = name]

\* A resolved value without the importance marker it may carry.
StripMarker(value) ==
    IF EndsWith(value, ImportantMarker)
    THEN Slice(value, 0, Len(value) - Len(ImportantMarker))
    ELSE value

\* The block the claim names as the winner for a property some block declares.
WinningBlock(styles, name) ==
    LET important == {k \in DOMAIN styles : DeclaresImportant(styles[k], name)}
        declaring == {k \in DOMAIN styles : Declares(styles[k], name)}
    IN  IF important # {} THEN Min(important) ELSE Min(declaring)

Resolved(props, name) == ~props.isNull /\ name \in DOMAIN props.map

\* C1: for every property declared in some block, the resolved value is the value of
\* the first block that declares it important, or, when no block does, of the first
\* block that declares it; a property no block declares is absent from the result.
C1_FirstImportantElseFirst ==
    pc = "done" =>
        \A name \in PropertyNames :
            IF \E k \in DOMAIN args.styles : Declares(args.styles[k], name)
            THEN /\ Resolved(result, name)
                 /\ StripMarker(result.map[name])
                      = DeclarationOf(args.styles[WinningBlock(args.styles, name)], name).value
            ELSE ~Resolved(result, name)

\* C1 witness: color is declared plainly, then important, then important again with
\* another value, and the value of the middle block is the resolved one.
C1_Witness ==
    /\ pc = "done"
    /\ Len(args.styles) = 3
    /\ args.styles[1] = <<[name |-> "color", value |-> "red", important |-> FALSE]>>
    /\ args.styles[2] = <<[name |-> "color", value |-> "blue", important |-> TRUE]>>
    /\ args.styles[3] = <<[name |-> "color", value |-> "red", important |-> TRUE]>>
    /\ StripMarker(result.map["color"]) = "blue"

(***************************************************************************)
(* Properties of getElementStyles (SpecElement).                           *)
(***************************************************************************)
\* C2: no value of a resolved style map ends with the importance marker.
C2_ValuesWithoutMarker ==
    (pc = "done" /\ result # Thrown /\ ~result.isNull) =>
        \A name \in DOMAIN result.map : ~EndsWith(result.map[name], ImportantMarker)

\* The rules of the call whose selector the element matches, by their index.
MatchingRules == {k \in DOMAIN args.rules : Matches(args.el, args.rules[k].selectorText).value}

\* The members of a set of indices in ascending order.
RECURSIVE Ascending(_)
Ascending(S) == IF S = {} THEN <<>> ELSE <<Min(S)>> \o Ascending(S \ {Min(S)})

\* The blocks of the rules whose indices are order[k..].
RECURSIVE BlocksOf(_, _)
BlocksOf(order, k) ==
    IF k > Len(order) THEN <<>> ELSE <<args.rules[order[k]].style>> \o BlocksOf(order, k + 1)

\* The sequence the claim names: the inline block, then the blocks of the matching rules.
InlineThenMatching(matching) == <<args.el.style>> \o BlocksOf(Ascending(matching), 1)

\* C3: the result is the resolution of the inline block followed by the blocks of the
\* matching rules in input order.  So a property the inline block declares without
\* importance resolves to the inline value unless a matching rule declares it
\* important, and then to the value of the first matching rule that does.  The call
\* ends with the SyntaxError of el.matches exactly when some selector raises one.
C3_InlineFirst ==
    /\ pc = "done" =>
          (result = Thrown <=>
              \E k \in DOMAIN args.rules : Matches(args.el, args.rules[k].selectorText).threw)
    /\ (pc = "done" /\ result # Thrown) =>
        \E matching \in {MatchingRules} : \E blocks \in {InlineThenMatching(matching)} :
        \A name \in PropertyNames :
            /\ IF \E k \in DOMAIN blocks : Declares(blocks[k], name)
               THEN /\ Resolved(result, name)
                    /\ StripMarker(result.map[name])
                         = DeclarationOf(blocks[WinningBlock(blocks, name)], name).value
               ELSE ~Resolved(result, name)
            /\ (Declares(args.el.style, name) /\ ~DeclaresImportant(args.el.style, name)) =>
                  LET overriding ==
                          {k \in matching : DeclaresImportant(args.rules[k].style, name)}
                  IN  /\ Resolved(result, name)
                      /\ IF overriding = {}
                         THEN result.map[name] = DeclarationOf(args.el.style, name).value
                         ELSE StripMarker(result.map[name])
                                = DeclarationOf(args.rules[Min(overriding)].style, name).value

\* C3 witness: inline color:red against two matching rules, the first plain and the
\* second important, resolves color from the second rule.
C3_Witness ==
    /\ pc = "done"
    /\ args.el.style = <<[name |-> "color", value |-> "red", important |-> FALSE]>>
    /\ MatchingRules = {1, 2}
    /\ args.rules[1].style = <<[name |-> "color", value |-> "blue", important |-> FALSE]>>
    /\ args.rules[2].style = <<[name |-> "color", value |-> "blue", important |-> TRUE]>>
    /\ StripMarker(result.map["color"]) = "blue"

(***************************************************************************)
(* Properties of the rule collector (SpecSheet): every style rule of the   *)
(* tree with whether all the rules around it are conditional groups whose  *)
(* condition holds.                                                        *)
(***************************************************************************)
ConditionHolds(rule, window) ==
    \/ isMediaRule(rule) /\ window.matchMedia /\ rule.media.mediaText \in window.matching
    \/ isSupportsRule(rule) /\ window.CSS /\ rule.conditionText \in window.supported

RECURSIVE StyleRulesIn(_, _, _)
StyleRulesIn(cssRules, window, open) ==
    UNION {IF isStyleRule(cssRules[k])
           THEN {[rule |-> cssRules[k], open |-> open]}
           ELSE StyleRulesIn(cssRules[k].cssRules, window,
                             open /\ ConditionHolds(cssRules[k], window))
           : k \in DOMAIN cssRules}

Occurrences(list, x) == Cardinality({k \in DOMAIN list : list[k] = x})

\* C6: the returned sequence holds a style rule once when every group around it has a
\* true condition and not at all otherwise, and it holds nothing but style rules.
C6_ExactlyTheOpenRules ==
    (pc = "done" /\ ~result.threw) =>
        /\ \A x \in StyleRulesIn(args.sheet.cssRules, args.window, TRUE) :
              Occurrences(result.styleRules, x.rule) = IF x.open THEN 1 ELSE 0
        /\ \A k \in DOMAIN result.styleRules : isStyleRule(result.styleRules[k])

\* C6 witness: a style rule in a group whose condition holds, itself in a media group
\* whose condition does not, is left out.
C6_Witness ==
    /\ pc = "done"
    /\ ~result.threw
    /\ Len(args.sheet.cssRules) = 1
    /\ LET outer == args.sheet.cssRules[1]
       IN  /\ isMediaRule(outer)
           /\ args.window.matchMedia
           /\ ~ConditionHolds(outer, args.window)
           /\ Len(outer.cssRules) = 1
           /\ ~isStyleRule(outer.cssRules[1])
           /\ ConditionHolds(outer.cssRules[1], args.window)
           /\ Len(outer.cssRules[1].cssRules) = 1
           /\ isStyleRule(outer.cssRules[1].cssRules[1])
    /\ result.styleRules = <<>>

(***************************************************************************)
(* Properties of getDocumentStyleRules (SpecDocument).                     *)
(***************************************************************************)
CollectedRules ==
    UNION {{x.rule : x \in {y \in StyleRulesIn(args.document.styleSheets[k].cssRules,
                                                args.document.defaultView, TRUE) : y.open}}
           : k \in DOMAIN args.document.styleSheets}

\* C4: a rule of strictly higher specificity comes before every rule of lower
\* specificity, and the output holds every collected rule once and nothing else.
C4_SortedPermutation ==
    (pc = "done" /\ ~result.threw) =>
        LET out == result.styleRules
        IN  /\ \A i, j \in DOMAIN out :
                  compare(out[i].selectorText, out[j].selectorText) = 1 => i < j
            /\ Range(out) = CollectedRules
            /\ \A x \in CollectedRules : Occurrences(out, x) = 1

\* C4 witness: a sheet declares the more specific rule first, so that the collector
\* finds it last, and the output has it first.
C4_Witness ==
    /\ pc = "done"
    /\ ~result.threw
    /\ Len(args.document.styleSheets) = 1
    /\ Len(result.styleRules) = 2
    /\ result.styleRules[1].id < result.styleRules[2].id
    /\ compare(result.styleRules[1].selectorText, result.styleRules[2].selectorText) = 1

\* C5: two collected rules of equal specificity come out in reverse declaration order,
\* the rule declared later in the document first.
C5_TiesLatestFirst ==
    (pc = "done" /\ ~result.threw) =>
        LET out == result.styleRules
        IN  \A i, j \in DOMAIN out :
                (i < j /\ compare(out[i].selectorText, out[j].selectorText) = 0)
                    => out[i].id > out[j].id

(***************************************************************************)
(* Properties of getPseudoElementStyles (SpecPseudo).  What the claims say *)
(* about one selector is stated without the cursor: the tokens are the     *)
(* matches that do not start inside another match.  A pseudo-element name  *)
(* is one of the ten names of the pattern, whatever the case it is written *)
(* in, and its group is the entry under `::` and the name.                 *)
(***************************************************************************)
TokenStarts(text) ==
    LET lower == ToLowerCase(text)
    IN  {p \in 0..(Len(text) - 1) :
            /\ MatchAt(text, lower, p).found
            /\ ~(p > 0 /\ MatchAt(text, lower, p - 1).found)}

\* The names the selector holds, as they are written.
SpelledNamesIn(text) ==
    {"::" \o MatchAt(text, ToLowerCase(text), p).group : p \in TokenStarts(text)}

\* The pseudo-element names the selector holds.
NamesIn(text) == {ToLowerCase(name) : name \in SpelledNamesIn(text)}

\* The selector without the span of its last token, `*` when nothing is left.
BaseOf(text) ==
    LET last == MatchAt(text, ToLowerCase(text), Max(TokenStarts(text)))
        base == Slice(text, 0, last.index) \o Slice(text, last.index + Len(last.all), Len(text))
    IN  IF base = "" THEN "*" ELSE base

Contributes(el, rule) ==
    /\ TokenStarts(rule.selectorText) # {}
    /\ Matches(el, BaseOf(rule.selectorText)).value

\* For every rule, the names whose groups it contributes to.
Contributions(el, rules) ==
    [k \in DOMAIN rules |->
        IF Contributes(el, rules[k]) THEN NamesIn(rules[k].selectorText) ELSE {}]

\* The blocks of the rules 1..upto that contribute to the group of name, in input order.
RECURSIVE GroupOf(_, _, _, _)
GroupOf(contributions, rules, name, upto) ==
    IF upto = 0 THEN <<>>
    ELSE GroupOf(contributions, rules, name, upto - 1)
         \o (IF name \in contributions[upto] THEN <<rules[upto].style>> ELSE <<>>)

\* C7: after the callbacks of the rules 1..i-1, the group of every pseudo-element name
\* holds, in input order and once each, the blocks of exactly those rules that name it
\* and whose base selector the element matches; a rule adds its block to no other
\* group, and a name without such a rule has no group.
C7_GroupsOfMatchingRules ==
    args # NoArgs =>
        \E contributions \in {Contributions(args.el, SubSeq(args.rules, 1, acc.i - 1))} :
            /\ DOMAIN acc.rulesByPseudoElement = UNION Range(contributions)
            /\ \A name \in DOMAIN acc.rulesByPseudoElement :
                  acc.rulesByPseudoElement[name]
                      = GroupOf(contributions, args.rules, name, acc.i - 1)

Returns == pc = "idle" /\ result # None /\ result # Thrown

\* C8: the call returns null exactly when no rule contributed a block, and otherwise a
\* mapping, never empty, whose keys are the pseudo-element names that got a block.
C8_NullOrTheNamesFound ==
    Returns =>
        \E names \in {UNION Range(Contributions(args.el, args.rules))} :
            /\ result.isNull <=> names = {}
            /\ ~result.isNull => (DOMAIN result.map = names /\ names # {})

\* C9: every name of the returned mapping maps to a style map that is present and
\* holds at least one property.
C9_EveryNameHasProperties ==
    (Returns /\ ~result.isNull) =>
        \A name \in DOMAIN result.map :
            /\ ~result.map[name].isNull
            /\ DOMAIN result.map[name].map # {}

\* C10: the cursor is 0 whenever a selector is about to be scanned, whenever one has
\* been scanned and whenever no call runs, whatever calls came before and however they
\* ended; what a scan finds, the names and the base selector, is what the text of the
\* selector alone holds; a call repeated with the same arguments ends as it did before.
C10_CursorAtZero ==
    /\ lastIndex = 0
    /\ pc = "match" =>
          \E text \in {args.rules[acc.i].selectorText} :
              /\ Range(acc.scan.seenPseudos) = SpelledNamesIn(text)
              /\ IF TokenStarts(text) = {}
                 THEN acc.scan.baseSelector = text
                 ELSE (IF acc.scan.baseSelector = "" THEN "*" ELSE acc.scan.baseSelector)
                        = BaseOf(text)
    /\ (pc = "idle" /\ prev # None) => result = prev

\* C10 witness: the call is repeated after el.matches threw in it, the first selector
\* with its pseudo-element has been scanned again, and the second is about to be.
C10_Witness ==
    /\ pc = "scan"
    /\ prev = Thrown
    /\ acc.i = 2
    /\ TokenStarts(args.rules[1].selectorText) # {}
    /\ lastIndex = 0

====
